---- MODULE Spec2Model ----
(***************************************************************************)
(* Model of modrinth_import_modlist.py (src/main.py): the reference        *)
(* normalizer, the interactive resolver, the collection picker, the merge  *)
(* and the run of main() with its local state file.                        *)
(*                                                                         *)
(* Text is modelled as a sequence of one-character strings, so that        *)
(* lower(), strip(), split("/") and the ordering used by sorted() are      *)
(* computed and not assumed.                                               *)
(***************************************************************************)
EXTENDS Integers, Sequences, FiniteSets, TLC

(***************************************************************************)
(* Bounds of the model.                                                    *)
(***************************************************************************)
MaxSegs == 3
MaxMods == 2
MaxExisting == 2
MaxReprompt == 1

None == << "<None>" >>

(***************************************************************************)
(* Characters: printable ASCII, in code point order (32 .. 126).  Code     *)
(* point 96 is written by name: the lexer does not take it in a string.    *)
(***************************************************************************)
Ascii ==
  << " ", "!", "\"", "#", "$", "%", "&", "'", "(", ")", "*", "+", ",", "-", ".", "/",
     "0", "1", "2", "3", "4", "5", "6", "7", "8", "9", ":", ";", "<", "=", ">", "?",
     "@", "A", "B", "C", "D", "E", "F", "G", "H", "I", "J", "K", "L", "M", "N", "O",
     "P", "Q", "R", "S", "T", "U", "V", "W", "X", "Y", "Z", "[", "\\", "]", "^", "_",
     "GRAVE", "a", "b", "c", "d", "e", "f", "g", "h", "i", "j", "k", "l", "m", "n", "o",
     "p", "q", "r", "s", "t", "u", "v", "w", "x", "y", "z", "{", "|", "}", "~" >>

Chars == {Ascii[i] : i \in DOMAIN Ascii}

\* ord(c)
Ord == [c \in Chars |-> 31 + (CHOOSE i \in DOMAIN Ascii : Ascii[i] = c)]

\* str.lower() on one character
LowerChar(c) == IF Ord[c] >= 65 /\ Ord[c] <= 90 THEN Ascii[Ord[c] + 32 - 31] ELSE c

\* str.lower()
Lower(s) == [i \in DOMAIN s |-> LowerChar(s[i])]

RECURSIVE LStrip(_)
LStrip(s) == IF s # <<>> /\ Head(s) = " " THEN LStrip(Tail(s)) ELSE s

RECURSIVE RStrip(_)
RStrip(s) ==
  IF s # <<>> /\ s[Len(s)] = " " THEN RStrip(SubSeq(s, 1, Len(s) - 1)) ELSE s

\* str.strip()
Strip(s) == RStrip(LStrip(s))

\* str.split(sep): the pieces between the separators, empty pieces included
RECURSIVE SplitAcc(_, _, _)
SplitAcc(s, sep, cur) ==
  IF s = <<>> THEN << cur >>
  ELSE IF Head(s) = sep THEN << cur >> \o SplitAcc(Tail(s), sep, <<>>)
  ELSE SplitAcc(Tail(s), sep, Append(cur, Head(s)))

Split(s, sep) == SplitAcc(s, sep, <<>>)

\* [p for p in seq if p]
RECURSIVE NonEmpty(_)
NonEmpty(q) ==
  IF q = <<>> THEN <<>>
  ELSE IF Head(q) = <<>> THEN NonEmpty(Tail(q))
  ELSE << Head(q) >> \o NonEmpty(Tail(q))

\* s < t for Python strings: code point lexicographic, a proper prefix first
RECURSIVE StrLess(_, _)
StrLess(s, t) ==
  IF t = <<>> THEN FALSE
  ELSE IF s = <<>> THEN TRUE
  ELSE IF Head(s) = Head(t) THEN StrLess(Tail(s), Tail(t))
  ELSE Ord[Head(s)] < Ord[Head(t)]

(***************************************************************************)
(* Literals of the program.                                                *)
(***************************************************************************)
HostModrinth == << "m", "o", "d", "r", "i", "n", "t", "h", ".", "c", "o", "m" >>
HostWww == << "w", "w", "w", "." >> \o HostModrinth
ValidHosts == {HostModrinth, HostWww}
ModTag == << "m", "o", "d" >>

(***************************************************************************)
(* extract_modrinth_project_id.  A URL is given by what urlparse makes of  *)
(* it: whether it raises, and otherwise its netloc and its path.           *)
(***************************************************************************)
\* variant: the host is not looked at
ExtractAnyHost_m(url) ==
  IF url.raises THEN None
  ELSE LET parts == NonEmpty(Split(url.path, "/"))
       IN  IF Len(parts) >= 2 /\ Lower(parts[1]) = ModTag THEN parts[2] ELSE None

extract_modrinth_project_id(url) ==
  IF url.raises THEN None
  ELSE LET host == Lower(url.netloc)
       IN  IF host \notin ValidHosts THEN None
           ELSE LET parts == NonEmpty(Split(url.path, "/"))
                IN  IF Len(parts) >= 2 /\ Lower(parts[1]) = ModTag
                    THEN parts[2]
                    ELSE None

(***************************************************************************)
(* Inputs of the runs: identifiers, URLs, modlists, files, answers.        *)
(***************************************************************************)
IdA == << "a" >>
IdAb == << "a", "b" >>
IdB == << "b" >>
IdBig == << "B" >>
IdC == << "c" >>
Col1 == << "c", "1" >>
Col2 == << "c", "2" >>
Col3 == << "c", "3" >>

HostCurse == << "c", "u", "r", "s", "e", ".", "c", "o", "m" >>

Url(host, path) == [raises |-> FALSE, netloc |-> host, path |-> path]
Unparseable == [raises |-> TRUE, netloc |-> <<>>, path |-> <<>>]

\* the entries a modlist can hold: {"name": .., "url": ..}, the url optional
Entry(u) == [hasUrl |-> TRUE, url |-> u]
NoUrlEntry == [hasUrl |-> FALSE, url |-> Unparseable]

ModEntries ==
  { Entry(Url(HostModrinth, << "/", "m", "o", "d", "/", "b" >>)),
    Entry(Url(<< "W", "W", "W", "." >> \o HostModrinth,
              << "/", "M", "o", "d", "/", "a", "/", "v", "/", "1" >>)),
    Entry(Url(HostCurse, << "/", "m", "o", "d", "/", "c" >>)),
    NoUrlEntry }

RECURSIVE SeqsUpTo(_, _)
SeqsUpTo(S, n) ==
  IF n = 0 THEN { <<>> }
  ELSE LET shorter == SeqsUpTo(S, n - 1)
       IN  shorter \cup { Append(q, x) : q \in shorter, x \in S }

ModLists == SeqsUpTo(ModEntries, MaxMods)

\* what the operator pastes at "Paste Modrinth URL"
ReplyUrls ==
  { Url(HostModrinth, << "/", "m", "o", "d", "/", "B" >>),
    Url(HostCurse, << "/", "m", "o", "d", "/", "c" >>),
    Unparseable }

\* what the operator types at the three prompts
ResolverAnswers ==
  { << "q" >>, << "Q", "u", "i", "t", " " >>, << "s" >>, << "u" >>, << "x" >> }
PickerAnswers ==
  { << "q" >>, << "Q", "U", "I", "T" >>, Col2, << "1" >>, << " ", "2", " " >>,
    << "9" >>, << "x" >> }
ConfirmAnswers ==
  { << "y" >>, << " ", "Y", "E", "S", " " >>, << "n" >>, <<>>, << "q" >>,
    << "y", "e" >> }

\* the collection lists the list endpoint can return
FetchLists == { <<>>, << Col1 >>, << Col1, Col2 >> }

\* the "projects" fields the detail endpoint can return, when it is a list
ExistingLists == SeqsUpTo({IdA, IdAb, IdC}, MaxExisting)

(***************************************************************************)
(* The state file: a sequence of JSON tokens.                              *)
(***************************************************************************)
LBrace == << "{" >>
RBrace == << "}" >>
LBrack == << "[" >>
RBrack == << "]" >>
Punct == {LBrace, RBrace, LBrack, RBrack}

NoFile == [exists |-> FALSE, data |-> <<>>]
File(d) == [exists |-> TRUE, data |-> d]

AllPlain(q) == \A i \in DOMAIN q : q[i] \notin Punct

Inner(q) == SubSeq(q, 2, Len(q) - 1)

Collections(kind, items) == [kind |-> kind, items |-> items]
Value(kind, coll) == [kind |-> kind, collections |-> coll]
EmptyDict == Value("dict", Collections("absent", <<>>))

\* json.load: the value read, or raises
JsonLoad(d) ==
  IF Len(d) >= 2 /\ d[1] = LBrace /\ d[Len(d)] = RBrace
  THEN LET in == Inner(d)
       IN  IF in = <<>> THEN [raises |-> FALSE, value |-> EmptyDict]
           ELSE IF Len(in) >= 2 /\ in[1] = LBrack /\ in[Len(in)] = RBrack
                   /\ AllPlain(Inner(in))
           THEN [raises |-> FALSE,
                 value |-> Value("dict", Collections("list", Inner(in)))]
           ELSE IF Len(in) = 1 /\ AllPlain(in)
           THEN [raises |-> FALSE, value |-> Value("dict", Collections("other", in))]
           ELSE [raises |-> TRUE, value |-> EmptyDict]
  ELSE IF Len(d) >= 2 /\ d[1] = LBrack /\ d[Len(d)] = RBrack /\ AllPlain(Inner(d))
  THEN [raises |-> FALSE, value |-> Value("list", Collections("absent", <<>>))]
  ELSE [raises |-> TRUE, value |-> EmptyDict]

\* json.dump of the state record holding these collections
JsonDump(colls) == << LBrace, LBrack >> \o colls \o << RBrack, RBrace >>

load_state(f) ==
  IF ~f.exists THEN EmptyDict
  ELSE LET r == JsonLoad(f.data)
       IN  IF r.raises THEN EmptyDict ELSE r.value

\* the state files a run can find
InitFiles ==
  { NoFile,
    File(<< LBrace, LBrack >>),
    File(<< LBrack, RBrack >>),
    File(<< LBrace, RBrace >>),
    File(<< LBrace, << "x" >>, RBrace >>),
    File(JsonDump(<<>>)),
    File(JsonDump(<< Col2, Col1 >>)) }

(***************************************************************************)
(* The merge of main(): set(), union, sorted(), and the added count.       *)
(***************************************************************************)
ToSet(q) == {q[i] : i \in DOMAIN q}

\* sorted(): insertion into an ascending sequence
RECURSIVE Insert(_, _)
Insert(x, q) ==
  IF q = <<>> THEN << x >>
  ELSE IF StrLess(q[1], x) THEN << q[1] >> \o Insert(x, Tail(q))
  ELSE << x >> \o q

RECURSIVE Sorted(_)
Sorted(S) ==
  IF S = {} THEN <<>>
  ELSE LET x == CHOOSE y \in S : TRUE IN Insert(x, Sorted(S \ {x}))

\* existing_projects = coll.get("projects") or []; not a list -> []; set(str(p) ..)
existing_set_of(projects) ==
  IF projects.kind = "list" THEN ToSet(projects.items) ELSE {}

\* variant: the existing members are left out of the final list
FinalIncomingOnly_m(existing, incoming) == Sorted(incoming)

\* final_set = sorted(existing_set.union(to_add_set))
final_set_of(existing, incoming) == Sorted(existing \cup incoming)

\* variant: every incoming identifier is counted as added
AddedIncoming_m(final, existing, incoming) == Cardinality(incoming)

\* added_count = len(final_set) - len(existing_set)
added_count_of(final, existing, incoming) == Len(final) - Cardinality(existing)

\* int(ans) of the picker: digits with an optional sign, blanks around ignored
IsDigit(c) == Ord[c] >= 48 /\ Ord[c] <= 57

RECURSIVE DigitsValue(_, _)
DigitsValue(q, acc) ==
  IF q = <<>> THEN acc ELSE DigitsValue(Tail(q), 10 * acc + (Ord[Head(q)] - 48))

ParseInt(ans) ==
  LET t == Strip(ans)
      signed == t # <<>> /\ Head(t) \in {"+", "-"}
      ds == IF signed THEN Tail(t) ELSE t
  IN  IF ds = <<>> \/ \E i \in DOMAIN ds : ~IsDigit(ds[i])
      THEN [ok |-> FALSE, val |-> 0]
      ELSE [ok |-> TRUE,
            val |-> IF signed /\ Head(t) = "-" THEN 0 - DigitsValue(ds, 0)
                    ELSE DigitsValue(ds, 0)]

(***************************************************************************)
(* State of one run of main().                                             *)
(***************************************************************************)
VARIABLES
  dryRun,        \* args.dry_run
  explicitId,    \* args.collection_id, or None
  pc,            \* where main() is
  exitStatus,    \* the process's exit status: -1 while running or when killed
  outcome,       \* "Running", "Updated", "Aborted", "Failed", "Killed"
  cause,         \* what ended the run
  fs,            \* the files of the working directory, by path
  file0,         \* the state file as the run found it
  fetched,       \* what the list fetch returned
  ioFailed,      \* save_state raised in this run
  collections,   \* main()'s collections
  collectionId,  \* main()'s collection_id
  rest,          \* the modlist entries still to walk
  projectIds,    \* project_ids of collect_project_ids_from_modlist
  skipped,       \* its skipped count
  observed,      \* the members the detail fetch returned
  existingSet,   \* existing_set
  finalSet,      \* final_set
  addedCount,    \* added_count
  confirm,       \* the answer at the final confirmation, as typed
  sent,          \* the payloads of the PATCH requests made
  reads,         \* opens of the state file for reading
  writes,        \* replacements of the state file
  prompted,      \* the operator has been asked something
  reprompts,     \* answers that were asked again
  abortedAt,     \* the prompt the operator aborted at
  steps,         \* the steps of the run, in order
  nUrl,          \* normalizer alone: its input
  nRes           \* normalizer alone: its result

argVars == << dryRun, explicitId >>
endVars == << exitStatus, outcome, cause, abortedAt >>
fileVars == << fs, file0, reads, writes, ioFailed >>
listVars == << fetched, collections, collectionId >>
modVars == << rest, projectIds, skipped >>
mergeVars == << observed, existingSet, finalSet, addedCount >>
askVars == << prompted, reprompts, confirm >>
normVars == << nUrl, nRes >>

vars ==
  << argVars, pc, endVars, fileVars, listVars, modVars, mergeVars, askVars, sent,
     steps, normVars >>

NotAsked == << "<not asked>" >>

\* STATE_PATH, and STATE_PATH.with_suffix(".tmp") of save_state
StatePath == "modrinth_state.json"
\* variant: save_state writes the state file in place
TmpPath_m == StatePath
TmpPath == "modrinth_state.tmp"
Paths == {"modrinth_state.json", "modrinth_state.tmp"}

stateFile == fs[StatePath]

Init ==
  /\ dryRun \in BOOLEAN
  /\ explicitId \in {None, Col1, Col3}
  /\ pc = "start"
  /\ exitStatus = -1
  /\ outcome = "Running"
  /\ cause = "none"
  /\ \E f \in InitFiles : fs = [p \in Paths |-> IF p = StatePath THEN f ELSE NoFile]
  /\ file0 = fs[StatePath]
  /\ fetched = [status |-> "none", items |-> <<>>]
  /\ ioFailed = FALSE
  /\ collections = Collections("absent", <<>>)
  /\ collectionId = None
  /\ rest = <<>>
  /\ projectIds = <<>>
  /\ skipped = 0
  /\ observed = {}
  /\ existingSet = {}
  /\ finalSet = <<>>
  /\ addedCount = 0
  /\ confirm = NotAsked
  /\ sent = <<>>
  /\ reads = 0
  /\ writes = 0
  /\ prompted = FALSE
  /\ reprompts = 0
  /\ abortedAt = "none"
  /\ steps = <<>>
  /\ nUrl = Unparseable
  /\ nRes = None

\* sys.exit(status), or an exception nobody catches (status 1)
Exit(status, how, why) ==
  /\ pc' = "done"
  /\ exitStatus' = status
  /\ outcome' = how
  /\ cause' = why

\* the traceback of an uncaught exception
Uncaught(why) == Exit(1, "Failed", why) /\ abortedAt' = abortedAt

Log(step) == steps' = Append(steps, step)

(***************************************************************************)
(* Exit statuses of the three aborts.                                      *)
(***************************************************************************)
ResolverAbortStatus == 1
PickerAbortStatus == 1
\* variant: the confirmation abort exits like the two earlier aborts
ConfirmAbortStatus_m == ResolverAbortStatus
ConfirmAbortStatus == 0

(***************************************************************************)
(* main(): load_config.                                                    *)
(***************************************************************************)
LoadConfig ==
  /\ pc = "start"
  /\ \E ok \in BOOLEAN :
       IF ok THEN /\ pc' = "sync"
                  /\ UNCHANGED endVars
             ELSE /\ Exit(1, "Failed", "config")
                  /\ abortedAt' = abortedAt
  /\ UNCHANGED << argVars, fileVars, listVars, modVars, mergeVars, askVars, sent,
                  steps, normVars >>

(***************************************************************************)
(* sync_collections_to_state: fetch_collections, load_state, save_state.   *)
(* Whatever it raises lands in main()'s except Exception.                  *)
(***************************************************************************)
FetchResults ==
  { [status |-> why, items |-> <<>>] : why \in {"http_error", "not_a_list"} }
    \cup { [status |-> "ok", items |-> l] : l \in FetchLists }

FetchCollections ==
  /\ pc = "sync"
  /\ \E r \in FetchResults :
       /\ fetched' = r
       /\ IF r.status = "ok"
          THEN /\ collections' = Collections("list", r.items)
               /\ pc' = "sync_load"
          ELSE /\ collections' = collections
               /\ pc' = "fallback"
  /\ Log("list_fetch")
  /\ UNCHANGED << argVars, endVars, fileVars, collectionId, modVars, mergeVars,
                  askVars, sent, normVars >>

\* state = load_state(); state["user_id"] = ..: a value that is no dict raises
SyncLoadState ==
  /\ pc = "sync_load"
  /\ reads' = reads + 1
  /\ pc' = IF load_state(stateFile).kind = "dict" THEN "save_open" ELSE "fallback"
  /\ Log("cache_read")
  /\ UNCHANGED << argVars, endVars, fs, file0, writes, ioFailed, listVars,
                  modVars, mergeVars, askVars, sent, normVars >>

SaveRaises ==
  /\ ioFailed' = TRUE
  /\ pc' = "fallback"

\* tmp.open("w"): the temporary file is created or truncated
SaveOpen ==
  /\ pc = "save_open"
  /\ \/ /\ fs' = [fs EXCEPT ![TmpPath] = File(<<>>)]
        /\ pc' = "save_write"
        /\ ioFailed' = ioFailed
     \/ /\ SaveRaises
        /\ fs' = fs
  /\ UNCHANGED << argVars, endVars, file0, reads, writes, listVars, modVars,
                  mergeVars, askVars, sent, steps, normVars >>

\* json.dump(state, f): the text reaches the temporary file piece by piece
SaveWrite ==
  /\ pc = "save_write"
  /\ LET text == JsonDump(collections.items)
         n == Len(fs[TmpPath].data)
     IN  \/ /\ n < Len(text)
            /\ fs' = [fs EXCEPT ![TmpPath] = File(Append(@.data, text[n + 1]))]
            /\ pc' = pc
            /\ ioFailed' = ioFailed
         \/ /\ n = Len(text)
            /\ fs' = fs
            /\ pc' = "save_rename"
            /\ ioFailed' = ioFailed
         \/ /\ n < Len(text)
            /\ SaveRaises
            /\ fs' = fs
  /\ UNCHANGED << argVars, endVars, file0, reads, writes, listVars, modVars,
                  mergeVars, askVars, sent, steps, normVars >>

\* os.replace(src, dst): dst takes src's content in one step, src is gone
Replace(files, src, dst) ==
  IF src = dst THEN files
  ELSE [p \in Paths |-> IF p = dst THEN files[src]
                        ELSE IF p = src THEN NoFile ELSE files[p]]

\* tmp.replace(STATE_PATH), then the [info] line of sync_collections_to_state
SaveRename ==
  /\ pc = "save_rename"
  /\ \/ /\ fs' = Replace(fs, TmpPath, StatePath)
        /\ writes' = writes + 1
        /\ pc' = "choose"
        /\ ioFailed' = ioFailed
        /\ Log("cache_write")
     \/ /\ SaveRaises
        /\ UNCHANGED << fs, writes, steps >>
  /\ UNCHANGED << argVars, endVars, file0, reads, listVars, modVars, mergeVars,
                  askVars, sent, normVars >>

\* the process is killed inside save_state
Crash ==
  /\ pc \in {"save_open", "save_write", "save_rename"}
  /\ pc' = "crashed"
  /\ outcome' = "Killed"
  /\ UNCHANGED << argVars, exitStatus, cause, abortedAt, fileVars, listVars,
                  modVars, mergeVars, askVars, sent, steps, normVars >>

\* variant: the cached collections are not used
FallbackList_m(c) == Collections("list", <<>>)

\* state.get("collections") or []
FallbackList(c) == IF c.kind = "absent" THEN Collections("list", <<>>) ELSE c

\* main()'s except branch: load_state(), the collections of the state, or exit
Fallback ==
  /\ pc = "fallback"
  /\ reads' = reads + 1
  /\ Log("cache_read")
  /\ LET state == load_state(stateFile)
     IN  IF state.kind # "dict"
         THEN /\ Uncaught("state_shape")
              /\ collections' = collections
         ELSE LET c == FallbackList(state.collections)
              IN  /\ collections' = c
                  /\ IF c.items = <<>>
                     THEN /\ Exit(1, "Failed", "no_cache")
                          /\ abortedAt' = abortedAt
                     ELSE /\ pc' = "choose"
                          /\ UNCHANGED endVars
  /\ UNCHANGED << argVars, fs, file0, writes, ioFailed, fetched, collectionId,
                  modVars, mergeVars, askVars, sent, normVars >>

(***************************************************************************)
(* choose_collection.                                                      *)
(***************************************************************************)
HasId(colls, id) == \E i \in DOMAIN colls : colls[i] = id

\* the first lines of choose_collection, up to the prompt
ChooseCollection ==
  /\ pc = "choose"
  /\ Log("choose")
  /\ IF collections.kind # "list"
     THEN /\ Uncaught("collections_shape")
          /\ collectionId' = collectionId
     ELSE IF explicitId # None /\ explicitId # <<>>
     THEN IF HasId(collections.items, explicitId)
          THEN /\ collectionId' = explicitId
               /\ pc' = "load_modlist"
               /\ UNCHANGED endVars
          ELSE /\ Uncaught("collection_not_found")
               /\ collectionId' = collectionId
     ELSE IF collections.items = <<>>
     THEN /\ Exit(1, "Failed", "no_collections")
          /\ abortedAt' = abortedAt
          /\ collectionId' = collectionId
     ELSE /\ pc' = "pick"
          /\ UNCHANGED << endVars, collectionId >>
  /\ UNCHANGED << argVars, fileVars, fetched, collections, modVars, mergeVars,
                  askVars, sent, normVars >>

\* one turn of the picker's loop
PickCollection ==
  /\ pc = "pick"
  /\ prompted' = TRUE
  /\ \E raw \in PickerAnswers :
       LET ans == Strip(raw)
           n == ParseInt(ans)
           items == collections.items
       IN  IF Lower(ans) \in {<< "q" >>, << "q", "u", "i", "t" >>}
           THEN /\ Exit(PickerAbortStatus, "Aborted", "abort_picker")
                /\ abortedAt' = "picker"
                /\ UNCHANGED << collectionId, reprompts >>
           ELSE IF HasId(items, ans)
           THEN /\ collectionId' = ans
                /\ pc' = "load_modlist"
                /\ UNCHANGED << endVars, reprompts >>
           ELSE IF n.ok /\ 1 <= n.val /\ n.val <= Len(items)
           THEN /\ collectionId' = items[n.val]
                /\ pc' = "load_modlist"
                /\ UNCHANGED << endVars, reprompts >>
           ELSE /\ reprompts < MaxReprompt
                /\ reprompts' = reprompts + 1
                /\ UNCHANGED << pc, endVars, collectionId >>
  /\ UNCHANGED << argVars, fileVars, fetched, collections, modVars, mergeVars,
                  confirm, sent, steps, normVars >>

(***************************************************************************)
(* load_modlist and collect_project_ids_from_modlist.                      *)
(***************************************************************************)
LoadModlist ==
  /\ pc = "load_modlist"
  /\ Log("load_modlist")
  /\ \/ /\ Exit(1, "Failed", "modlist")
        /\ abortedAt' = abortedAt
        /\ rest' = rest
     \/ /\ \E ml \in ModLists : rest' = ml
        /\ pc' = "collect"
        /\ UNCHANGED endVars
  /\ UNCHANGED << argVars, fileVars, listVars, projectIds, skipped, mergeVars,
                  askVars, sent, normVars >>

\* if pid not in project_ids: project_ids.append(pid)
AddProjectId(ids, pid) == IF HasId(ids, pid) THEN ids ELSE Append(ids, pid)

\* one turn of the for loop, up to the call of the resolver
CollectNext ==
  /\ pc = "collect"
  /\ rest # <<>>
  /\ LET e == Head(rest)
         pid == IF e.hasUrl THEN extract_modrinth_project_id(e.url) ELSE None
     IN  IF pid # None /\ pid # <<>>
         THEN /\ projectIds' = AddProjectId(projectIds, pid)
              /\ rest' = Tail(rest)
              /\ pc' = pc
         ELSE /\ rest' = Tail(rest)
              /\ pc' = "resolve"
              /\ projectIds' = projectIds
  /\ UNCHANGED << argVars, endVars, fileVars, listVars, skipped, mergeVars,
                  askVars, sent, steps, normVars >>

\* one turn of the loop of prompt_for_modrinth_url, and what the caller does
\* with what it returns
PromptForUrl ==
  /\ pc = "resolve"
  /\ prompted' = TRUE
  /\ \E raw \in ResolverAnswers :
       LET ans == Lower(Strip(raw))
       IN  IF ans \in {<< "q" >>, << "q", "u", "i", "t" >>}
           THEN /\ Exit(ResolverAbortStatus, "Aborted", "abort_resolver")
                /\ abortedAt' = "resolver"
                /\ UNCHANGED << projectIds, skipped, reprompts >>
           ELSE IF ans \in {<< "s" >>, << "s", "k", "i", "p" >>}
           THEN /\ skipped' = skipped + 1
                /\ pc' = "collect"
                /\ UNCHANGED << endVars, projectIds, reprompts >>
           ELSE IF ans \in {<< "u" >>, << "u", "r", "l" >>}
           THEN \E u \in ReplyUrls :
                  LET pid == extract_modrinth_project_id(u)
                  IN  IF pid = None \/ pid = <<>>
                      THEN /\ reprompts < MaxReprompt
                           /\ reprompts' = reprompts + 1
                           /\ UNCHANGED << pc, endVars, projectIds, skipped >>
                      ELSE /\ projectIds' = AddProjectId(projectIds, pid)
                           /\ pc' = "collect"
                           /\ UNCHANGED << endVars, skipped, reprompts >>
           ELSE /\ reprompts < MaxReprompt
                /\ reprompts' = reprompts + 1
                /\ UNCHANGED << pc, endVars, projectIds, skipped >>
  /\ UNCHANGED << argVars, fileVars, listVars, rest, mergeVars, confirm, sent,
                  steps, normVars >>

\* the for loop is over: the two [info] lines
CollectDone ==
  /\ pc = "collect"
  /\ rest = <<>>
  /\ pc' = "detail"
  /\ Log("normalize")
  /\ UNCHANGED << argVars, endVars, fileVars, listVars, modVars, mergeVars,
                  askVars, sent, normVars >>

(***************************************************************************)
(* fetch_collection_details and the merge.                                 *)
(***************************************************************************)
DetailBodies ==
  { Collections("absent", <<>>), Collections("other", << IdA >>) }
    \cup { Collections("list", l) : l \in ExistingLists }

FetchDetailsAndMerge ==
  /\ pc = "detail"
  /\ \/ /\ \E why \in {"detail_fetch", "detail_shape"} : Uncaught(why)
        /\ Log("detail_fetch")
        /\ UNCHANGED mergeVars
     \/ \E body \in DetailBodies :
          LET existing == existing_set_of(body)
              incoming == ToSet(projectIds)
              final == final_set_of(existing, incoming)
          IN  /\ observed' = IF body.kind = "list" THEN ToSet(body.items) ELSE {}
              /\ existingSet' = existing
              /\ finalSet' = final
              /\ addedCount' = added_count_of(final, existing, incoming)
              /\ steps' = steps \o << "detail_fetch", "merge" >>
              /\ pc' = "confirm"
              /\ UNCHANGED endVars
  /\ UNCHANGED << argVars, fileVars, listVars, modVars, askVars, sent, normVars >>

(***************************************************************************)
(* The final confirmation and patch_collection_projects.                   *)
(***************************************************************************)
\* variant: everything but n and no confirms
ConfirmedAny_m(ans) == Lower(Strip(ans)) \notin {<< "n" >>, << "n", "o" >>}

\* confirm = input(..).strip().lower(); confirm in {"y", "yes"}
Confirmed(ans) == Lower(Strip(ans)) \in {<< "y" >>, << "y", "e", "s" >>}

ConfirmStep ==
  /\ pc = "confirm"
  /\ prompted' = TRUE
  /\ Log("confirm")
  /\ \E raw \in ConfirmAnswers :
       /\ confirm' = raw
       /\ IF Confirmed(raw)
          THEN /\ pc' = "patch"
               /\ UNCHANGED endVars
          ELSE /\ Exit(ConfirmAbortStatus, "Aborted", "abort_confirm")
               /\ abortedAt' = "confirm"
  /\ UNCHANGED << argVars, fileVars, listVars, modVars, mergeVars, reprompts,
                  sent, normVars >>

\* variant: the dry-run switch is not looked at
SkipsPatch_m(dry) == FALSE

\* if dry_run: return
SkipsPatch(dry) == dry

PatchCollectionProjects ==
  /\ pc = "patch"
  /\ IF SkipsPatch(dryRun)
     THEN /\ Exit(0, "Updated", "dry_run")
          /\ UNCHANGED << sent, steps >>
     ELSE /\ sent' = Append(sent, finalSet)
          /\ Log("update")
          /\ \E status \in {204, 401} :
               IF status = 204 THEN Exit(0, "Updated", "updated")
               ELSE Exit(1, "Failed", "update_failed")
  /\ UNCHANGED << argVars, abortedAt, fileVars, listVars, modVars, mergeVars,
                  askVars, normVars >>

Next ==
  \/ LoadConfig
  \/ FetchCollections
  \/ SyncLoadState
  \/ SaveOpen
  \/ SaveWrite
  \/ SaveRename
  \/ Crash
  \/ Fallback
  \/ ChooseCollection
  \/ PickCollection
  \/ LoadModlist
  \/ CollectNext
  \/ PromptForUrl
  \/ CollectDone
  \/ FetchDetailsAndMerge
  \/ ConfirmStep
  \/ PatchCollectionProjects

Spec == Init /\ [][Next]_vars

(***************************************************************************)
(* The normalizer alone, over hosts and path segments.  Each host and each *)
(* segment says what it is, so that the properties need not compute it.    *)
(***************************************************************************)
NormHosts ==
  { [text |-> HostModrinth, canonical |-> TRUE],
    [text |-> HostWww, canonical |-> TRUE],
    [text |-> << "W", "w", "W", ".", "M", "o", "d", "r", "i", "n", "t", "h", ".",
                 "C", "O", "M" >>, canonical |-> TRUE],
    [text |-> << "M", "O", "D", "R", "I", "N", "T", "H", ".", "c", "o", "m" >>,
     canonical |-> TRUE],
    [text |-> HostCurse, canonical |-> FALSE],
    [text |-> << "a", "p", "i", "." >> \o HostModrinth, canonical |-> FALSE],
    [text |-> HostModrinth \o << ":", "4", "4", "3" >>, canonical |-> FALSE],
    [text |-> <<>>, canonical |-> FALSE] }

NormSegs ==
  { [text |-> <<>>, tag |-> FALSE],
    [text |-> ModTag, tag |-> TRUE],
    [text |-> << "M", "o", "D" >>, tag |-> TRUE],
    [text |-> << "m", "o", "d", "s" >>, tag |-> FALSE],
    [text |-> << "x" >>, tag |-> FALSE],
    [text |-> << "A", "b" >>, tag |-> FALSE] }

NormInputs ==
  { [raises |-> r, host |-> h, segs |-> q] :
      r \in BOOLEAN, h \in NormHosts, q \in SeqsUpTo(NormSegs, MaxSegs) }

\* the path whose pieces between the slashes are these segments
RECURSIVE JoinPath(_)
JoinPath(q) ==
  IF q = <<>> THEN <<>> ELSE << "/" >> \o Head(q).text \o JoinPath(Tail(q))

\* what urlparse makes of the input
UrlOf(in) ==
  IF in.raises THEN Unparseable ELSE Url(in.host.text, JoinPath(in.segs))

NormInit ==
  /\ nUrl \in NormInputs
  /\ nRes = None
  /\ pc = "normalize"
  /\ dryRun = FALSE
  /\ explicitId = None
  /\ exitStatus = -1
  /\ outcome = "Running"
  /\ cause = "none"
  /\ fs = [p \in Paths |-> NoFile]
  /\ file0 = NoFile
  /\ fetched = [status |-> "none", items |-> <<>>]
  /\ ioFailed = FALSE
  /\ collections = Collections("absent", <<>>)
  /\ collectionId = None
  /\ rest = <<>>
  /\ projectIds = <<>>
  /\ skipped = 0
  /\ observed = {}
  /\ existingSet = {}
  /\ finalSet = <<>>
  /\ addedCount = 0
  /\ confirm = NotAsked
  /\ sent = <<>>
  /\ reads = 0
  /\ writes = 0
  /\ prompted = FALSE
  /\ reprompts = 0
  /\ abortedAt = "none"
  /\ steps = <<>>

Normalize ==
  /\ pc = "normalize"
  /\ nRes' = extract_modrinth_project_id(UrlOf(nUrl))
  /\ pc' = "normalized"
  /\ UNCHANGED << argVars, endVars, fileVars, listVars, modVars, mergeVars,
                  askVars, sent, steps, nUrl >>

NormNext == Normalize

SpecNorm == NormInit /\ [][NormNext]_vars

(***************************************************************************)
(* Properties.                                                             *)
(***************************************************************************)
Contains(q, x) == \E i \in DOMAIN q : q[i] = x

\* the identifiers of the model, in ascending lexicographic (code point) order
IdsInOrder == << IdBig, IdA, IdAb, IdB, IdC >>
Rank(id) == CHOOSE i \in DOMAIN IdsInOrder : IdsInOrder[i] = id
Ascending(q) == \A i, j \in DOMAIN q : i < j => Rank(q[i]) < Rank(q[j])

Affirmative == { << "y" >>, << " ", "Y", "E", "S", " " >> }

FetchFailed == fetched.status \in {"http_error", "not_a_list"}

\* the steps of a run that reaches the update, by how the list was obtained
StepsToUpdate ==
  << "list_fetch", "cache_read" >>
    \o (IF FetchFailed THEN <<>>
        ELSE IF ioFailed THEN << "cache_read" >> ELSE << "cache_write" >>)
    \o << "choose", "load_modlist", "normalize", "detail_fetch", "merge", "confirm" >>

\* the causes of the fatal errors
FatalCauses ==
  { "config", "no_cache", "collection_not_found", "no_collections", "modlist",
    "detail_fetch", "detail_shape", "update_failed", "state_shape",
    "collections_shape" }

\* the list of collections a state file of the model holds, if any
PersistedList(f) ==
  IF f = File(<< LBrace, LBrack, Col2, Col1, RBrack, RBrace >>)
  THEN << Col2, Col1 >> ELSE <<>>

\* the segments that are not empty
RECURSIVE Filled(_)
Filled(q) ==
  IF q = <<>> THEN <<>>
  ELSE IF Head(q).text = <<>> THEN Filled(Tail(q))
  ELSE << Head(q) >> \o Filled(Tail(q))

\* the complete text save_state is to write
NewContent == File(<< LBrace, LBrack >> \o fetched.items \o << RBrack, RBrace >>)

\* the state files that are unparseable or of another shape than the record
MalformedFiles ==
  { File(<< LBrace, LBrack >>), File(<< LBrack, RBrack >>),
    File(<< LBrace, << "x" >>, RBrace >>) }

\* C1: every update call sends a list that contains every member the detail
\* fetch of the chosen collection returned in the same run.
C1_MergeMonotonic == \A i \in DOMAIN sent : observed \subseteq ToSet(sent[i])

C1_Witness ==
  /\ Len(sent) = 1
  /\ observed = {IdA, IdC}
  /\ ToSet(projectIds) = {IdB, IdBig}
  /\ sent[1] = << IdBig, IdA, IdB, IdC >>

\* C2: a run in which the operator aborted at the resolver, at the picker or
\* at the final confirmation makes no update call; an update call is made
\* only after the final confirmation was answered y or yes.
C2_AbortNoUpdate ==
  /\ abortedAt # "none" => sent = <<>>
  /\ sent # <<>> => confirm \in Affirmative

C2_Witness ==
  /\ pc = "done"
  /\ abortedAt = "confirm"
  /\ confirm = << "q" >>
  /\ ~dryRun
  /\ finalSet # <<>>
  /\ sent = <<>>

\* C3: up to the update call the steps of a run and the final member list it
\* computes do not depend on the dry-run switch; a dry run makes no update
\* call, and once confirmed it ends Updated with exit status 0.
C3_DryRun ==
  /\ pc = "patch" \/ cause \in {"dry_run", "updated", "update_failed"} =>
       /\ SubSeq(steps, 1, Len(StepsToUpdate)) = StepsToUpdate
       /\ ToSet(finalSet) = observed \cup ToSet(projectIds)
       /\ Ascending(finalSet)
       /\ confirm \in Affirmative
  /\ dryRun => sent = <<>> /\ ~Contains(steps, "update")
  /\ dryRun /\ pc = "done" /\ confirm \in Affirmative =>
       outcome = "Updated" /\ exitStatus = 0

C3_Witness ==
  /\ dryRun
  /\ pc = "done"
  /\ outcome = "Updated"
  /\ exitStatus = 0
  /\ sent = <<>>
  /\ writes = 1
  /\ finalSet = << IdA, IdAb, IdB >>

\* C4 as stated: every explicit abort ends the run with exit status 0, and
\* exit status 1 comes only from fatal errors.
C4_AbortExitsZero ==
  /\ pc = "done" /\ abortedAt # "none" => exitStatus = 0
  /\ exitStatus = 1 => cause \in FatalCauses

\* C4 amended: an abort at the final confirmation ends the run with exit
\* status 0, an abort at the resolver or at the picker ends it with exit
\* status 1, and exit status 1 otherwise comes only from fatal errors.
C4_AbortExitStatus ==
  /\ abortedAt = "confirm" => pc = "done" /\ exitStatus = 0
  /\ abortedAt \in {"resolver", "picker"} => pc = "done" /\ exitStatus = 1
  /\ exitStatus = 1 /\ abortedAt = "none" => cause \in FatalCauses
  /\ cause \in FatalCauses => exitStatus = 1

C4_Witness ==
  /\ pc = "done"
  /\ abortedAt = "resolver"
  /\ exitStatus = 1
  /\ projectIds # <<>>

\* C5: the merge yields the union of the existing and the incoming set as a
\* duplicate-free ascending sequence, and the added count is the size of the
\* final list minus the size of the existing set, which is the number of
\* incoming identifiers absent from the existing set.
C5_Merge ==
  Contains(steps, "merge") =>
    LET incoming == ToSet(projectIds)
    IN  /\ ToSet(finalSet) = existingSet \cup incoming
        /\ Ascending(finalSet)
        /\ Len(finalSet) = Cardinality(ToSet(finalSet))
        /\ addedCount = Len(finalSet) - Cardinality(existingSet)
        /\ addedCount = Cardinality(incoming \ existingSet)

C5_Witness ==
  /\ Contains(steps, "merge")
  /\ existingSet = {IdA, IdC}
  /\ projectIds = << IdB, IdA >>
  /\ finalSet = << IdA, IdB, IdC >>
  /\ addedCount = 1

\* C6: after a failed list fetch the cache is not written; if the state file
\* held a list of collections the run goes on to the choice with that list;
\* if it held none the run fails with exit status 1 without a prompt, a
\* detail fetch or an update call.  A failed detail fetch ends the run with
\* exit status 1 and no update call.
C6_ListFetchFallback ==
  /\ FetchFailed => writes = 0 /\ stateFile = file0
  /\ FetchFailed /\ pc # "fallback" /\ PersistedList(file0) # <<>> =>
       /\ collections = Collections("list", PersistedList(file0))
       /\ pc = "choose" \/ Contains(steps, "choose")
  /\ FetchFailed /\ pc # "fallback" /\ PersistedList(file0) = <<>> =>
       /\ pc \in {"choose", "done"}
       /\ pc = "done" => outcome = "Failed" /\ exitStatus = 1
       /\ ~prompted
       /\ ~Contains(steps, "detail_fetch")
       /\ sent = <<>>
  /\ cause \in {"detail_fetch", "detail_shape"} =>
       pc = "done" /\ outcome = "Failed" /\ exitStatus = 1 /\ sent = <<>>

C6_Witness ==
  /\ FetchFailed
  /\ pc = "confirm"
  /\ collections.items = << Col2, Col1 >>
  /\ collectionId = Col1
  /\ reads = 1

\* C7: the normalizer returns the second non-empty path segment verbatim
\* exactly when the host is modrinth.com or www.modrinth.com in any letter
\* case, the first non-empty segment is "mod" in any letter case and a second
\* one exists; for every other input, unparseable ones included, it returns
\* none.
C7_Normalize ==
  pc = "normalized" =>
    LET segs == Filled(nUrl.segs)
    IN  IF ~nUrl.raises /\ nUrl.host.canonical /\ Len(segs) >= 2 /\ segs[1].tag
        THEN nRes = segs[2].text
        ELSE nRes = None

C7_Witness ==
  /\ pc = "normalized"
  /\ nUrl.host.text # Lower(nUrl.host.text)
  /\ Len(nUrl.segs) = 3
  /\ nUrl.segs[1].text = << "M", "o", "D" >>
  /\ nUrl.segs[2].text = << "A", "b" >>
  /\ nRes = << "A", "b" >>

\* C8: in every run the state file is read at most once and written at most
\* once.
C8_ReadWriteOnce == reads <= 1 /\ writes <= 1

\* C9: whenever the process dies inside save_state the state file holds its
\* complete previous content or the complete new content, and it holds the
\* previous content as long as the state file was not replaced.
C9_AtomicSave ==
  /\ stateFile = file0 \/ (fetched.status = "ok" /\ stateFile = NewContent)
  /\ fs["modrinth_state.tmp"].exists => stateFile = file0
  /\ writes = 0 => stateFile = file0

C9_Witness ==
  /\ pc = "crashed"
  /\ file0 = File(<< LBrace, LBrack, Col2, Col1, RBrack, RBrace >>)
  /\ fetched.items = << Col1 >>
  /\ fs["modrinth_state.tmp"] = File(<< LBrace, LBrack, Col1 >>)
  /\ stateFile = file0

\* C10: a malformed state file never ends the run by itself: after a
\* successful list fetch the file is overwritten and the run goes on with the
\* fetched list; after a failed one the run ends as for a missing file.
C10_MalformedIsEmpty ==
  file0 \in MalformedFiles =>
    /\ cause \notin {"state_shape", "collections_shape"}
    /\ fetched.status = "ok" /\ ~ioFailed
         /\ pc \notin {"sync_load", "save_open", "save_write", "save_rename", "crashed"}
         => stateFile = NewContent /\ collections.items = fetched.items
    /\ FetchFailed /\ pc # "fallback" => pc = "done" /\ cause = "no_cache"

====
